---- MODULE Spec2Model ----
(***************************************************************************)
(* Model of src/main.py: the LINE translator bot's message pipeline        *)
(* (process_message) with its text normalisation functions, the rate       *)
(* limiter, the lru-cached Google translation and the optional OpenAI      *)
(* translation.                                                            *)
(*                                                                         *)
(* Text is a sequence of characters.  A character is a one-element name    *)
(* (TLA+ strings are ASCII only): an ASCII character stands for itself, a  *)
(* non-ASCII character has a mnemonic name.  Ord gives the Unicode code    *)
(* point of every modelled character, and the character classes of the     *)
(* regular expressions in the source are computed from the code points.    *)
(***************************************************************************)
EXTENDS Integers, Sequences, FiniteSets, TLC

(***************************************************************************)
(* Characters                                                              *)
(***************************************************************************)

\* Code points of the modelled characters.
\*   Ju 。  Ex ！  Qm ？  Warn ⚠  Vs16 U+FE0F
\*   Xie 謝  Ni 你  Hao 好  De 的  Shi 是  Ah 啊  Jie 姐
\*   Yi 已  Jing 經  Chi 吃  Hai 還  Mei 沒  Zao 早  Shang 上  Xia 下  Wu 午
\*   Jiu 就  Dian 點  Fan 翻  Yi4 譯  Shi1 失  Bai 敗
\*   ExtA1 㐀 (U+3400)  ExtA2 㐁 (U+3401): CJK Unified Ideographs Extension A
Ord ==
    [c \in {" "} |-> 32] @@ [c \in {"!"} |-> 33] @@ [c \in {","} |-> 44] @@
    [c \in {"-"} |-> 45] @@ [c \in {"."} |-> 46] @@ [c \in {":"} |-> 58] @@
    [c \in {"0"} |-> 48] @@ [c \in {"1"} |-> 49] @@ [c \in {"2"} |-> 50] @@
    [c \in {"3"} |-> 51] @@ [c \in {"4"} |-> 52] @@ [c \in {"5"} |-> 53] @@
    [c \in {"6"} |-> 54] @@ [c \in {"7"} |-> 55] @@ [c \in {"8"} |-> 56] @@
    [c \in {"9"} |-> 57] @@
    [c \in {"J"} |-> 74] @@ [c \in {"O"} |-> 79] @@
    [c \in {"a"} |-> 97] @@ [c \in {"b"} |-> 98] @@ [c \in {"c"} |-> 99] @@
    [c \in {"d"} |-> 100] @@
    [c \in {"e"} |-> 101] @@ [c \in {"g"} |-> 103] @@ [c \in {"h"} |-> 104] @@
    [c \in {"i"} |-> 105] @@ [c \in {"j"} |-> 106] @@ [c \in {"k"} |-> 107] @@
    [c \in {"l"} |-> 108] @@ [c \in {"m"} |-> 109] @@ [c \in {"n"} |-> 110] @@
    [c \in {"o"} |-> 111] @@ [c \in {"p"} |-> 112] @@ [c \in {"r"} |-> 114] @@
    [c \in {"s"} |-> 115] @@ [c \in {"t"} |-> 116] @@ [c \in {"u"} |-> 117] @@
    [c \in {"x"} |-> 120] @@ [c \in {"y"} |-> 121] @@ [c \in {"z"} |-> 122] @@
    [c \in {"Ju"} |-> 12290] @@ [c \in {"Ex"} |-> 65281] @@
    [c \in {"Qm"} |-> 65311] @@ [c \in {"Warn"} |-> 9888] @@
    [c \in {"Vs16"} |-> 65039] @@
    [c \in {"Xie"} |-> 35613] @@ [c \in {"Ni"} |-> 20320] @@
    [c \in {"Hao"} |-> 22909] @@ [c \in {"De"} |-> 30340] @@
    [c \in {"Shi"} |-> 26159] @@ [c \in {"Ah"} |-> 21834] @@
    [c \in {"Jie"} |-> 22992] @@ [c \in {"Yi"} |-> 24050] @@
    [c \in {"Jing"} |-> 32147] @@ [c \in {"Chi"} |-> 21507] @@
    [c \in {"Hai"} |-> 36996] @@ [c \in {"Mei"} |-> 27794] @@
    [c \in {"Zao"} |-> 26089] @@ [c \in {"Shang"} |-> 19978] @@
    [c \in {"Xia"} |-> 19979] @@ [c \in {"Wu"} |-> 21320] @@
    [c \in {"Jiu"} |-> 23601] @@ [c \in {"Dian"} |-> 40670] @@
    [c \in {"Fan"} |-> 32763] @@ [c \in {"Yi4"} |-> 35695] @@
    [c \in {"Shi1"} |-> 22833] @@ [c \in {"Bai"} |-> 25943] @@
    [c \in {"ExtA1"} |-> 13312] @@ [c \in {"ExtA2"} |-> 13313]

\* \d of the regular expressions (ASCII digits are the modelled ones)
IsDigit(c) == Ord[c] \in 48..57

\* [A-Za-z]
IsAsciiLetter(c) == Ord[c] \in 65..90 \/ Ord[c] \in 97..122

\* \s and str.strip(): whitespace
IsSpace(c) == Ord[c] = 32

\* [一-鿿], the class detect_language searches for
IsCJKBasic(c) == Ord[c] \in 19968..40959

\* The CJK Unified Ideographs block and its Extension A block (U+3400..U+4DBF):
\* the ideographs of the modelled alphabet.
IsIdeograph(c) == Ord[c] \in 19968..40959 \/ Ord[c] \in 13312..19903

\* \w of a Python 3 str pattern: letters (ideographs included), digits, "_"
IsWordChar(c) == IsDigit(c) \/ IsAsciiLetter(c) \/ IsIdeograph(c)

\* str.lower() on one character
LowerChar(c) == IF Ord[c] \in 65..90
                THEN CHOOSE d \in DOMAIN Ord : Ord[d] = Ord[c] + 32
                ELSE c

\* the value of a digit character
DigitVal(c) == Ord[c] - 48

\* the digit character of a value 0..9
DigitChar(n) == CHOOSE d \in DOMAIN Ord : Ord[d] = 48 + n

(***************************************************************************)
(* Strings                                                                 *)
(***************************************************************************)

\* str.lower()
Lower(s) == [i \in 1..Len(s) |-> LowerChar(s[i])]

\* s[i:] of Python with the 1-based start i
From(s, i) == SubSeq(s, i, Len(s))

\* does s hold the literal p at position i (re: a literal, str.replace: a match)
HasAt(s, i, p) == /\ i + Len(p) - 1 <= Len(s)
                  /\ \A j \in 1..Len(p) : s[i + j - 1] = p[j]

\* the same under re.IGNORECASE, p in lower case
HasAtNoCase(s, i, p) == /\ i + Len(p) - 1 <= Len(s)
                        /\ \A j \in 1..Len(p) : LowerChar(s[i + j - 1]) = p[j]

\* \b before position i (between s[i-1] and s[i]; i = Len(s)+1 is the end)
Boundary(s, i) ==
    LET before == i > 1 /\ i - 1 <= Len(s) /\ IsWordChar(s[i - 1])
        after  == i >= 1 /\ i <= Len(s) /\ IsWordChar(s[i])
    IN  before # after

\* the first position at or after i whose character is not whitespace
RECURSIVE SkipSpace(_, _)
SkipSpace(s, i) == IF i <= Len(s) /\ IsSpace(s[i]) THEN SkipSpace(s, i + 1) ELSE i

\* the length of the run of digits that starts at i
RECURSIVE DigitRun(_, _)
DigitRun(s, i) == IF i <= Len(s) /\ IsDigit(s[i]) THEN 1 + DigitRun(s, i + 1) ELSE 0

\* the last position at or before i whose character is not whitespace; 0 if none
RECURSIVE LastNonSpace(_, _)
LastNonSpace(s, i) == IF i >= 1 /\ IsSpace(s[i]) THEN LastNonSpace(s, i - 1) ELSE i

\* str.strip()
Strip(s) ==
    IF SkipSpace(s, 1) > Len(s) THEN <<>>
    ELSE SubSeq(s, SkipSpace(s, 1), LastNonSpace(s, Len(s)))

\* str.replace(k, v): every non-overlapping occurrence, left to right
RECURSIVE ReplaceFrom(_, _, _, _)
ReplaceFrom(s, i, k, v) ==
    IF i > Len(s) THEN <<>>
    ELSE IF HasAt(s, i, k) THEN v \o ReplaceFrom(s, i + Len(k), k, v)
    ELSE <<s[i]>> \o ReplaceFrom(s, i + 1, k, v)

Replace(s, k, v) == ReplaceFrom(s, 1, k, v)

(***************************************************************************)
(* Values                                                                  *)
(***************************************************************************)

\* Python's None: a value apart from every string (its one element is no
\* character)
None == <<"None">>

\* the truth value Python gives a str-or-None value: "not v"
Falsy(v) == v = None \/ v = <<>>

(***************************************************************************)
(* Lexicon (src/main.py:81-379): the entries the modelled messages use, in *)
(* the order of the source                                                 *)
(***************************************************************************)

\* indonesian_abbreviation_map: <<surface form, canonical form>>
\*   pagi: 早上, sore: 下午, udh: 已經, blm: 還沒, jam: pukul, makan: 吃,
\*   tidur: 睡覺 is left out, aj: aja, aja: 就好
indonesian_abbreviation_map ==
    << << <<"p","a","g","i">>,      <<"Zao","Shang">> >>,
       << <<"s","o","r","e">>,      <<"Xia","Wu">> >>,
       << <<"u","d","h">>,          <<"Yi","Jing">> >>,
       << <<"b","l","m">>,          <<"Hai","Mei">> >>,
       << <<"j","a","m">>,          <<"p","u","k","u","l">> >>,
       << <<"m","a","k","a","n">>,  <<"Chi">> >>,
       << <<"a","j">>,              <<"a","j","a">> >>,
       << <<"a","j","a">>,          <<"Jiu","Hao">> >> >>

\* chinese_polish_map, in the order a dict iterates (insertion order):
\*   謝謝你: 謝謝。   好的: 好。   是啊姐姐: 好的姐姐。   ok: 好。
chinese_polish_map ==
    << << <<"Xie","Xie","Ni">>,         <<"Xie","Xie","Ju">> >>,
       << <<"Hao","De">>,               <<"Hao","Ju">> >>,
       << <<"Shi","Ah","Jie","Jie">>,   <<"Hao","De","Jie","Jie","Ju">> >>,
       << <<"o","k">>,                  <<"Hao","Ju">> >> >>

\* the keys of indonesian_abbreviation_map
AbbrKeys == {indonesian_abbreviation_map[n][1] : n \in DOMAIN indonesian_abbreviation_map}

\* indonesian_abbreviation_map.get(k, default)
AbbrGet(k, default) ==
    IF k \in AbbrKeys
    THEN indonesian_abbreviation_map[
             CHOOSE n \in DOMAIN indonesian_abbreviation_map :
                 indonesian_abbreviation_map[n][1] = k][2]
    ELSE default

(***************************************************************************)
(* expand_abbreviations (src/main.py:396-400)                              *)
(***************************************************************************)

\* the entries whose key has length n, in the order of the map
RECURSIVE KeysOfLen(_, _)
KeysOfLen(n, i) ==
    IF i > Len(indonesian_abbreviation_map) THEN <<>>
    ELSE (IF Len(indonesian_abbreviation_map[i][1]) = n
          THEN <<indonesian_abbreviation_map[i][1]>> ELSE <<>>)
         \o KeysOfLen(n, i + 1)

\* sorted(keys, key=lambda k: -len(k)): longer keys first, the sort is stable
RECURSIVE SortedFrom(_)
SortedFrom(n) == IF n = 0 THEN <<>> ELSE KeysOfLen(n, 1) \o SortedFrom(n - 1)

keys_sorted ==
    SortedFrom(CHOOSE n \in 0..64 :
                  /\ \A k \in AbbrKeys : Len(k) <= n
                  /\ \/ n = 0
                     \/ \E k \in AbbrKeys : Len(k) = n)

\* does the alternative k match s at position i, between two \b
AbbrOk(s, i, k) ==
    /\ Boundary(s, i)
    /\ HasAtNoCase(s, i, k)
    /\ Boundary(s, i + Len(k))

\* \b(k1|k2|...)\b at position i, ks the alternatives in their order: the
\* first alternative that matches, <<>> if none does (no key is empty)
AbbrMatchIn(s, i, ks) ==
    IF \E n \in DOMAIN ks : AbbrOk(s, i, ks[n])
    THEN ks[CHOOSE n \in DOMAIN ks :
                AbbrOk(s, i, ks[n]) /\ \A m \in 1..(n - 1) : ~AbbrOk(s, i, ks[m])]
    ELSE <<>>

AbbrMatchAt(s, i) == AbbrMatchIn(s, i, keys_sorted)

\* pattern.sub(lambda m: map.get(m.group(0).lower(), m.group(0)), text):
\* one scan, left to right, the scan resumes after each match; k is the
\* alternative matched at i
RECURSIVE ExpandFrom(_, _), ExpandWith(_, _, _)
ExpandWith(s, i, k) ==
    IF k = <<>> THEN <<s[i]>> \o ExpandFrom(s, i + 1)
    ELSE AbbrGet(Lower(SubSeq(s, i, i + Len(k) - 1)), SubSeq(s, i, i + Len(k) - 1))
         \o ExpandFrom(s, i + Len(k))

ExpandFrom(s, i) ==
    IF i > Len(s) THEN <<>> ELSE ExpandWith(s, i, AbbrMatchAt(s, i))

expand_abbreviations(text) == ExpandFrom(text, 1)

(***************************************************************************)
(* polish_chinese (src/main.py:402-407)                                    *)
(***************************************************************************)

\* [。！？]
IsTerminalMark(c) == c \in {"Ju", "Ex", "Qm"}

\* re.search(r'[。！？]$', s): the last character is a terminal mark (s holds
\* no line break)
EndsWithMark(s) == Len(s) > 0 /\ IsTerminalMark(s[Len(s)])

\* for k, v in chinese_polish_map.items(): text = text.replace(k, v)
RECURSIVE PolishRules(_, _)
PolishRules(text, n) ==
    IF n > Len(chinese_polish_map) THEN text
    ELSE PolishRules(Replace(text, chinese_polish_map[n][1], chinese_polish_map[n][2]),
                     n + 1)

\* lines 405-407, t the text after the rules
PolishEnd(t) == IF ~EndsWithMark(Strip(t)) THEN Strip(t) \o <<"Ju">> ELSE t

polish_chinese(text) == PolishEnd(PolishRules(text, 1))

(***************************************************************************)
(* detect_language (src/main.py:410-439)                                   *)
(***************************************************************************)

\* the language names detect_language returns
LangChinese == <<"c","h","i","n","e","s","e">>

LangIndonesian == <<"i","n","d","o","n","e","s","i","a","n">>

\* re.search(r'[一-鿿]', t)
HasCJKBasic(t) == \E i \in 1..Len(t) : IsCJKBasic(t[i])

\* re.findall(r'[A-Za-z]+', t): the maximal runs of ASCII letters
Tokens(t) ==
    {SubSeq(t, a, b) : <<a, b>> \in
        {ab \in (1..Len(t)) \X (1..Len(t)) :
            /\ ab[1] <= ab[2]
            /\ \A j \in ab[1]..ab[2] : IsAsciiLetter(t[j])
            /\ (ab[1] = 1 \/ ~IsAsciiLetter(t[ab[1] - 1]))
            /\ (ab[2] = Len(t) \/ ~IsAsciiLetter(t[ab[2] + 1]))}}

\* the words of the keyword heuristic:
\* saya|aku|makan|tidur|pagi|selamat|terima kasih|kamu|kmu|mkn|udh
Keywords ==
    { <<"s","a","y","a">>, <<"a","k","u">>, <<"m","a","k","a","n">>,
      <<"t","i","d","u","r">>, <<"p","a","g","i">>,
      <<"s","e","l","a","m","a","t">>,
      <<"t","e","r","i","m","a"," ","k","a","s","i","h">>,
      <<"k","a","m","u">>, <<"k","m","u">>, <<"m","k","n">>, <<"u","d","h">> }

\* re.search(r'\b(saya|...|udh)\b', t)
HasKeyword(t) ==
    \E i \in 1..Len(t) : \E k \in Keywords :
        Boundary(t, i) /\ HasAt(t, i, k) /\ Boundary(t, i + Len(k))

\* langdetect.detect finds no feature in a text without a letter and raises
\* LangDetectException ("No features in text")
HasFeature(t) == \E i \in 1..Len(t) : IsAsciiLetter(t[i]) \/ IsIdeograph(t[i])

\* The first value detect_language returns.  d is what langdetect.detect
\* does when it is called: [raised |-> TRUE] for a LangDetectException,
\* [raised |-> FALSE, code |-> c] for the language code c.
\* lines 421-427: a token of the lexicon or a keyword, tl = t.lower()
IsIndonesianByWords(tl) ==
    \/ Tokens(tl) \cap AbbrKeys # {}
    \/ HasKeyword(tl)

\* lines 431-439: what detect_language returns when it asks langdetect
DetectByLibrary(dl) ==
    IF dl \in {<<"i","d">>, <<"i","n">>, <<"m","s">>} THEN LangIndonesian
    ELSE IF HasAt(dl, 1, <<"z","h">>) THEN LangChinese
    ELSE None

\* detect_language for t = text.strip()
DetectStripped(t, d) ==
    IF t = <<>> THEN None
    ELSE IF HasCJKBasic(t) THEN LangChinese
    ELSE IF IsIndonesianByWords(Lower(t)) THEN LangIndonesian
    ELSE IF d.raised THEN None
    ELSE IF DetectByLibrary(Lower(d.code)) # None
         THEN DetectByLibrary(Lower(d.code))
    ELSE d.code

detect_language(text, d) == DetectStripped(Strip(text), d)

\* does detect_language call langdetect.detect on the text, t = text.strip()
CallsDetectStripped(t) ==
    /\ t # <<>>
    /\ ~HasCJKBasic(t)
    /\ ~IsIndonesianByWords(Lower(t))

CallsDetect(text) == CallsDetectStripped(Strip(text))

(***************************************************************************)
(* convert_jam_to_hhmm (src/main.py:441-492)                               *)
(***************************************************************************)

\* int() of a string of digits
RECURSIVE ToInt(_)
ToInt(ds) == IF ds = <<>> THEN 0
             ELSE 10 * ToInt(SubSeq(ds, 1, Len(ds) - 1)) + DigitVal(ds[Len(ds)])

\* str() of a natural number
RECURSIVE IntToStr(_)
IntToStr(n) == IF n < 10 THEN <<DigitChar(n)>>
               ELSE IntToStr(n \div 10) \o <<DigitChar(n % 10)>>

\* f"{n:02d}"
Fmt02(n) == IF n < 10 THEN <<"0">> \o IntToStr(n) ELSE IntToStr(n)

RECURSIVE Pow10(_)
Pow10(k) == IF k = 0 THEN 1 ELSE 10 * Pow10(k - 1)

\* round(num / den) of Python 3: to the nearest integer, a tie to the even one
RoundHalfEven(num, den) ==
    IF 2 * (num % den) < den THEN num \div den
    ELSE IF 2 * (num % den) > den THEN (num \div den) + 1
    ELSE IF (num \div den) % 2 = 0 THEN num \div den ELSE (num \div den) + 1

\* int(round(float(dec) * 60)) for dec of the form \d*\.\d+, computed on the
\* exact decimal value
\* ip the digits before the dot, fp the digits after it
FractionOf(ip, fp) ==
    RoundHalfEven((ToInt(ip) * Pow10(Len(fp)) + ToInt(fp)) * 60, Pow10(Len(fp)))

FractionAt(dec, dot) ==
    FractionOf(SubSeq(dec, 1, dot - 1), SubSeq(dec, dot + 1, Len(dec)))

FractionMinutes(dec) == FractionAt(dec, CHOOSE j \in 1..Len(dec) : dec[j] = ".")

PeriodsLate == { <<"s","o","r","e">>, <<"m","a","l","a","m">>, <<"p","m">>,
                 <<"p",".","m",".">> }

PeriodsEarly == { <<"p","a","g","i">>, <<"a","m">>, <<"a",".","m",".">> }

\* to_24(h, m, period); period is None or the matched period word
\* lines 451-453: h after the test of the late periods, p = period.lower()
HourLate(h, p) == IF p \in PeriodsLate /\ h < 12 THEN h + 12 ELSE h

\* lines 454-455
HourEarly(h, p) == IF p \in PeriodsEarly /\ h = 12 THEN 0 ELSE h

\* lines 449-455 (None is in neither set of periods)
HourOf(h, p) == HourEarly(HourLate(h, p), p)

to_24(h, m, period) ==
    Fmt02(HourOf(h % 24, IF period = None THEN None ELSE Lower(period)))
    \o <<":">> \o Fmt02(m)

\* the alternatives (pagi|siang|sore|malam|am|pm|a\.m\.|p\.m\.) in their order
PeriodWords ==
    << <<"p","a","g","i">>, <<"s","i","a","n","g">>, <<"s","o","r","e">>,
       <<"m","a","l","a","m">>, <<"a","m">>, <<"p","m">>,
       <<"a",".","m",".">>, <<"p",".","m",".">> >>

NoMatch == [ok |-> FALSE]

\* the first of a sequence of match attempts that matched
RECURSIVE FirstMatch(_)
FirstMatch(ms) == IF ms = <<>> THEN NoMatch
                  ELSE IF ms[1].ok THEN ms[1]
                  ELSE FirstMatch(Tail(ms))

\* \bjam\s* at position i: the position after it, 0 if it does not match.
\* (\s* is followed by a digit in the three patterns, so it takes the whole
\* run of whitespace.)
JamAt(s, i) ==
    IF Boundary(s, i) /\ HasAtNoCase(s, i, <<"j","a","m">>)
    THEN SkipSpace(s, i + 3) ELSE 0

\* the hour lengths (\d{1,2}) tries at position p, the longer first
HourLens(s, p) ==
    IF DigitRun(s, p) >= 2 THEN <<2, 1>>
    ELSE IF DigitRun(s, p) = 1 THEN <<1>> ELSE <<>>

IsSep(s, p) == p <= Len(s) /\ s[p] \in {":", ".", ","}

\* does the alternative n of PeriodWords match at q, before a \b
PeriodWordOk(s, q, n) ==
    /\ HasAtNoCase(s, q, PeriodWords[n])
    /\ Boundary(s, q + Len(PeriodWords[n]))

\* the first alternative of (pagi|...|p\.m\.)\b that matches at q, 0 if none
PeriodWordAt(s, q) ==
    IF \E n \in DOMAIN PeriodWords : PeriodWordOk(s, q, n)
    THEN CHOOSE n \in DOMAIN PeriodWords :
             PeriodWordOk(s, q, n) /\ \A m \in 1..(n - 1) : ~PeriodWordOk(s, q, m)
    ELSE 0

\* repl_period: minute of the minute part mp (None if the optional group
\* did not take part)
PeriodMinute(mp) ==
    IF Falsy(mp) THEN 0
    ELSE IF \E j \in 1..Len(mp) : mp[j] = "." THEN FractionMinutes(mp)
    ELSE ToInt(mp)

\* repl_period for the period word n found at q (no match if n = 0)
repl_period(s, q, n, h, mp) ==
    IF n = 0 THEN NoMatch
    ELSE [ok |-> TRUE, end |-> q + Len(PeriodWords[n]),
          out |-> to_24(h, PeriodMinute(mp),
                        SubSeq(s, q, q + Len(PeriodWords[n]) - 1))]

\* (pagi|...|p\.m\.)\b at position q, after hour h and minute part mp
PeriodTailAt(s, q, h, mp) == repl_period(s, q, PeriodWordAt(s, q), h, mp)

\* \s*(pagi|...|p\.m\.)\b at position p
PeriodTail(s, p, h, mp) == PeriodTailAt(s, SkipSpace(s, p), h, mp)

\* (?:[:.,](\d{1,2}))? taking part with n digits, p2 the end of the hour,
\* dl the digits after the separator
PeriodAltDigits(s, p2, h, dl, n) ==
    IF IsSep(s, p2) /\ dl >= n
    THEN PeriodTail(s, p2 + 1 + n, h, SubSeq(s, p2 + 1, p2 + n))
    ELSE NoMatch

\* (?:[:.,](\d*\.\d+))? taking part: dl digits, a dot, fl digits
PeriodAltFraction(s, p2, h, dl, fl) ==
    IF /\ IsSep(s, p2)
       /\ p2 + 1 + dl <= Len(s)
       /\ s[p2 + 1 + dl] = "."
       /\ fl >= 1
    THEN PeriodTail(s, p2 + 2 + dl + fl, h, SubSeq(s, p2 + 1, p2 + 1 + dl + fl))
    ELSE NoMatch

\* pattern_period after the hour h that ends before p2, the attempts in the
\* order of the regular expression engine: the optional group before its
\* absence; in the group \d{1,2} (longer first) before \d*\.\d+
PeriodAfterHour(s, p2, h, dl) ==
    FirstMatch(<<PeriodAltDigits(s, p2, h, dl, 2),
                 PeriodAltDigits(s, p2, h, dl, 1),
                 PeriodAltFraction(s, p2, h, dl, DigitRun(s, p2 + 2 + dl)),
                 PeriodTail(s, p2, h, None)>>)

\* pattern_period with an hour of hl digits at p1
PeriodWithHour(s, p1, hl) ==
    PeriodAfterHour(s, p1 + hl, ToInt(SubSeq(s, p1, p1 + hl - 1)),
                    DigitRun(s, p1 + hl + 1))

\* pattern_period after \bjam\s*, which ends before p1: the longer hour first
PeriodAfterJam(s, p1) ==
    IF p1 = 0 THEN NoMatch
    ELSE FirstMatch([n \in DOMAIN HourLens(s, p1) |->
                        PeriodWithHour(s, p1, HourLens(s, p1)[n])])

\* pattern_period at position i:
\* \bjam\s*(\d{1,2})(?:[:.,](\d{1,2}|\d*\.\d+))?\s*(pagi|...|p\.m\.)\b
PeriodMatchAt(s, i) == PeriodAfterJam(s, JamAt(s, i))

\* repl_decimal: (\d*\.\d+)\b at q with k digits, a dot and l digits
DecimalPart(s, h, q, k, l) ==
    IF /\ q + k <= Len(s)
       /\ s[q + k] = "."
       /\ l >= 1
       /\ Boundary(s, q + k + 1 + l)
    THEN [ok |-> TRUE, end |-> q + k + 1 + l,
          out |-> to_24(h, FractionMinutes(SubSeq(s, q, q + k + l)), None)]
    ELSE NoMatch

\* (\d*\.\d+)\b at q
DecimalAt(s, h, q) ==
    DecimalPart(s, h, q, DigitRun(s, q), DigitRun(s, q + DigitRun(s, q) + 1))

\* \s*[.,]?\s*(\d*\.\d+)\b after the hour, q the position after the first
\* \s*: with the separator before without it
DecimalAfterHour(s, h, q) ==
    FirstMatch(<<IF q <= Len(s) /\ s[q] \in {".", ","}
                 THEN DecimalAt(s, h, SkipSpace(s, q + 1)) ELSE NoMatch,
                 DecimalAt(s, h, q)>>)

\* pattern_decimal with an hour of hl digits at p1
DecimalWithHour(s, p1, hl) ==
    DecimalAfterHour(s, ToInt(SubSeq(s, p1, p1 + hl - 1)), SkipSpace(s, p1 + hl))

DecimalAfterJam(s, p1) ==
    IF p1 = 0 THEN NoMatch
    ELSE FirstMatch([n \in DOMAIN HourLens(s, p1) |->
                        DecimalWithHour(s, p1, HourLens(s, p1)[n])])

\* pattern_decimal at position i: \bjam\s*(\d{1,2})\s*[.,]?\s*(\d*\.\d+)\b
DecimalMatchAt(s, i) == DecimalAfterJam(s, JamAt(s, i))

\* repl_basic: (?:[:.,](\d{1,2}))?\b taking part with n digits
BasicAltDigits(s, p2, h, dl, n) ==
    IF IsSep(s, p2) /\ dl >= n /\ Boundary(s, p2 + 1 + n)
    THEN [ok |-> TRUE, end |-> p2 + 1 + n,
          out |-> to_24(h, ToInt(SubSeq(s, p2 + 1, p2 + n)), None)]
    ELSE NoMatch

\* pattern_basic after the hour h that ends before p2: the optional group
\* (longer first) before its absence
BasicAfterHour(s, p2, h, dl) ==
    FirstMatch(<<BasicAltDigits(s, p2, h, dl, 2),
                 BasicAltDigits(s, p2, h, dl, 1),
                 IF Boundary(s, p2)
                 THEN [ok |-> TRUE, end |-> p2, out |-> to_24(h, 0, None)]
                 ELSE NoMatch>>)

\* pattern_basic with an hour of hl digits at p1
BasicWithHour(s, p1, hl) ==
    BasicAfterHour(s, p1 + hl, ToInt(SubSeq(s, p1, p1 + hl - 1)),
                   DigitRun(s, p1 + hl + 1))

BasicAfterJam(s, p1) ==
    IF p1 = 0 THEN NoMatch
    ELSE FirstMatch([n \in DOMAIN HourLens(s, p1) |->
                        BasicWithHour(s, p1, HourLens(s, p1)[n])])

\* pattern_basic at position i: \bjam\s*(\d{1,2})(?:[:.,](\d{1,2}))?\b
BasicMatchAt(s, i) == BasicAfterJam(s, JamAt(s, i))

\* re's sub: the text from position i on with every match replaced, m the
\* match at i
RECURSIVE SubPeriod(_, _), SubPeriodWith(_, _, _)
SubPeriodWith(s, i, m) ==
    IF m.ok THEN m.out \o SubPeriod(s, m.end)
    ELSE <<s[i]>> \o SubPeriod(s, i + 1)

\* pattern_period.sub(repl_period, text)
SubPeriod(s, i) ==
    IF i > Len(s) THEN <<>> ELSE SubPeriodWith(s, i, PeriodMatchAt(s, i))

RECURSIVE SubDecimal(_, _), SubDecimalWith(_, _, _)
SubDecimalWith(s, i, m) ==
    IF m.ok THEN m.out \o SubDecimal(s, m.end)
    ELSE <<s[i]>> \o SubDecimal(s, i + 1)

\* pattern_decimal.sub(repl_decimal, text)
SubDecimal(s, i) ==
    IF i > Len(s) THEN <<>> ELSE SubDecimalWith(s, i, DecimalMatchAt(s, i))

RECURSIVE SubBasic(_, _), SubBasicWith(_, _, _)
SubBasicWith(s, i, m) ==
    IF m.ok THEN m.out \o SubBasic(s, m.end)
    ELSE <<s[i]>> \o SubBasic(s, i + 1)

\* pattern_basic.sub(repl_basic, text)
SubBasic(s, i) ==
    IF i > Len(s) THEN <<>> ELSE SubBasicWith(s, i, BasicMatchAt(s, i))

convert_jam_to_hhmm(text) == SubBasic(SubDecimal(SubPeriod(text, 1), 1), 1)

(***************************************************************************)
(* preprocess_text (src/main.py:494-500)                                   *)
(***************************************************************************)

\* (\d{1,2})點 at position i with an hour of hl digits
DianAt(s, i, hl) ==
    /\ DigitRun(s, i) >= hl
    /\ i + hl <= Len(s)
    /\ s[i + hl] = "Dian"

\* the hour length (\d{1,2})點(\d{1,2}) matches with at i, 0 if it does not
DianMinuteAt(s, i) ==
    IF DianAt(s, i, 2) /\ DigitRun(s, i + 3) >= 1 THEN 2
    ELSE IF DianAt(s, i, 1) /\ DigitRun(s, i + 2) >= 1 THEN 1
    ELSE 0

\* re.sub(r'(\d{1,2})點(\d{1,2})', r'\1:\2', text); hl the hour length of
\* the match at i, dl the length of its minutes
RECURSIVE SubDianMinute(_, _), SubDianMinuteWith(_, _, _, _)
SubDianMinuteWith(s, i, hl, dl) ==
    IF hl > 0
    THEN SubSeq(s, i, i + hl - 1) \o <<":">>
         \o SubSeq(s, i + hl + 1, i + hl + dl)
         \o SubDianMinute(s, i + hl + dl + 1)
    ELSE <<s[i]>> \o SubDianMinute(s, i + 1)

SubDianMinute(s, i) ==
    IF i > Len(s) THEN <<>>
    ELSE SubDianMinuteWith(s, i, DianMinuteAt(s, i),
             IF DigitRun(s, i + DianMinuteAt(s, i) + 1) >= 2 THEN 2 ELSE 1)

\* the hour length (\d{1,2})點\b matches with at i, 0 if it does not
DianHourAt(s, i) ==
    IF DianAt(s, i, 2) /\ Boundary(s, i + 3) THEN 2
    ELSE IF DianAt(s, i, 1) /\ Boundary(s, i + 2) THEN 1
    ELSE 0

\* re.sub(r'(\d{1,2})點\b', r'\1:00', text); hl the hour length of the
\* match at i
RECURSIVE SubDianHour(_, _), SubDianHourWith(_, _, _)
SubDianHourWith(s, i, hl) ==
    IF hl > 0
    THEN SubSeq(s, i, i + hl - 1) \o <<":", "0", "0">>
         \o SubDianHour(s, i + hl + 1)
    ELSE <<s[i]>> \o SubDianHour(s, i + 1)

SubDianHour(s, i) ==
    IF i > Len(s) THEN <<>> ELSE SubDianHourWith(s, i, DianHourAt(s, i))

preprocess_text(text, lang) ==
    IF lang = LangIndonesian
    THEN expand_abbreviations(
             convert_jam_to_hhmm(SubDianHour(SubDianMinute(text, 1), 1)))
    ELSE text

(***************************************************************************)
(* Bounds of the model and the inputs it draws                             *)
(***************************************************************************)

\* process_message is called at most this often in a behaviour of Spec
MaxMessages == 2

\* and at most this often in a behaviour of SpecDispatch
MaxDispatches == 2

\* and at most this often in a behaviour of SpecRate
MaxRateCalls == 3

\* RATE_LIMIT_PER_MIN of the environment is drawn from 0..MaxRateLimit
MaxRateLimit == 2

\* the lru_cache of translate_cached holds this many entries (maxsize=2048
\* in the source, scaled down)
CacheSize == 2

\* the clock int(time.time()) runs from 0 to MaxNow
MaxNow == 60

\* the window of rate_limited, in seconds
Window == 60

\* the clock advances in steps of half a window
TickStep == Window \div 2

\* the sender keys (client_key)
Keys == {"line:u1", "line:u2"}

\* The texts of the incoming messages:
\*   "  "   "!!"   "hello"   "udh makan blm jam 9 pagi"
\*   "是啊姐姐"   "㐀㐁 makan"   "makan aj"
Messages ==
    { <<" ", " ">>,
      <<"!", "!">>,
      <<"h","e","l","l","o">>,
      <<"u","d","h"," ","m","a","k","a","n"," ","b","l","m"," ",
        "j","a","m"," ","9"," ","p","a","g","i">>,
      <<"Shi","Ah","Jie","Jie">>,
      <<"ExtA1","ExtA2"," ","m","a","k","a","n">>,
      <<"m","a","k","a","n"," ","a","j">> }

\* what a collaborator does when it is not called
Idle == [raised |-> TRUE, code |-> <<>>, kind |-> "raise", text |-> <<>>, val |-> <<>>]

\* what langdetect.detect may do with a text: raise LangDetectException, or
\* return one of the codes "id", "zh-cn", "en"
DetectOutcomes(t) ==
    {[raised |-> TRUE, code |-> <<>>]} \cup
    (IF HasFeature(t)
     THEN {[raised |-> FALSE, code |-> c] :
              c \in {<<"i","d">>, <<"z","h","-","c","n">>, <<"e","n">>}}
     ELSE {})

\* a Chinese text a provider may return: 是啊姐姐
ZhOutputs == { <<"Shi","Ah","Jie","Jie">> }

\* an Indonesian text a provider may return: makan
IdOutputs == { <<"m","a","k","a","n">> }

ProviderOutputs(source) == IF source = "id" THEN ZhOutputs ELSE IdOutputs

\* what the OpenAI Responses API may do: raise, or return a response whose
\* first text is a translation or is empty
LLMOutcomes(source) ==
    {[kind |-> "raise", text |-> <<>>]} \cup
    {[kind |-> "ok", text |-> t] : t \in ProviderOutputs(source) \cup {<<>>}}

\* what GoogleTranslator.translate may do: raise, or return a translation,
\* an empty string or None
MTOutcomes(source) ==
    {[kind |-> "raise", val |-> <<>>]} \cup
    {[kind |-> "ok", val |-> t] : t \in ProviderOutputs(source) \cup {<<>>, None}}

\* the number of sheet.append_row calls of one save_to_sheet_row that raise
\* before one succeeds
AppendFailures == 0..2

(***************************************************************************)
(* State                                                                   *)
(***************************************************************************)

VARIABLES
    RATE_LIMIT,     \* src/main.py:595, read from the environment at start
    openai_client,  \* _openai_client is set (OPENAI_API_KEY and the package)
    sheet,          \* the Google sheet is connected
    now,            \* int(time.time())
    rate_store,     \* _rate_store: key -> [count, start]
    cache,          \* the lru_cache of translate_cached, least recent first
    sheet_rows,     \* the number of rows appended to the sheet
    calls,          \* per (provider, source, target, text): invocations so far
    window,         \* per key: the current 60 s window and the calls admitted in it
    processed,      \* the number of process_message calls so far
    last,           \* what the last process_message call did and returned
    arg,            \* the text a text function is applied to
    out,            \* what the function returned, None before it is applied
    threads         \* per worker thread: where it is in its call, its locals

vars == <<RATE_LIMIT, openai_client, sheet, now, rate_store, cache, sheet_rows,
          calls, window, processed, last, arg, out, threads>>

\* the errors process_message returns:
\*   EmptyInput   {"error": "請輸入有效文字"}
\*   RateLimited  {"error": "速率限制：每 60 秒最多 N 次"}
\*   NoLanguage   {"error": "無法偵測語言"}
\*   Unsupported  {"error": "僅支援中文與印尼文"}
ErrEmptyInput == "EmptyInput"

ErrRateLimited == "RateLimited"

ErrNoLanguage == "NoLanguage"

ErrUnsupported == "Unsupported"

\* "⚠️ 翻譯失敗", what translate_cached returns when the provider raised
Sentinel == <<"Warn","Vs16"," ","Fan","Yi4","Shi1","Bai">>

\* the record of a process_message call that has not got to any stage
NoCall == [text |-> <<>>, key |-> "", outcome |-> "none", error |-> "",
           rate_checked |-> FALSE, admitted |-> FALSE,
           lang |-> None, detect_called |-> FALSE, detect_raised |-> FALSE,
           branch |-> "", expanded |-> None, pre |-> None,
           llm_calls |-> 0, llm_raised |-> FALSE, llm_val |-> None,
           mt_lookups |-> 0, mt_calls |-> 0, mt_kind |-> "", mt_hit |-> FALSE,
           base |-> None, result |-> None, source |-> "",
           append_attempts |-> 0, rows |-> 0]

Init ==
    /\ RATE_LIMIT \in 0..MaxRateLimit
    /\ openai_client \in BOOLEAN
    /\ sheet \in BOOLEAN
    /\ now = 0
    /\ rate_store = <<>>
    /\ cache = <<>>
    /\ sheet_rows = 0
    /\ calls = <<>>
    /\ window = <<>>
    /\ processed = 0
    /\ last = NoCall
    /\ arg = <<>>
    /\ out = None
    /\ threads = <<>>

(***************************************************************************)
(* rate_limited (src/main.py:598-610)                                      *)
(***************************************************************************)

\* line 601: record = _rate_store.get(key, [0, now])
RateGet(key) ==
    IF key \in DOMAIN rate_store THEN rate_store[key]
    ELSE [count |-> 0, start |-> now]

\* rate_limited without lines 603-605: a window never ends
RateWindow_never_ends(record) == record

\* lines 603-605: a record whose window has ended starts a new one
RateWindow(record) ==
    IF now - record.start >= Window THEN [count |-> 0, start |-> now] ELSE record

\* lines 608-609: the record counted up and stored
RateCount(key, record) ==
    [k \in DOMAIN rate_store \cup {key} |->
        IF k = key THEN [count |-> record.count + 1, start |-> record.start]
        ELSE rate_store[k]]

\* rate_limited with the test of line 606 off by one: "count > RATE_LIMIT"
RateTest_off_by_one(key, record) ==
    IF record.count > RATE_LIMIT
    THEN [limited |-> TRUE, store |-> rate_store]
    ELSE [limited |-> FALSE, store |-> RateCount(key, record)]

\* lines 606-610: [limited |-> the value returned, store |-> _rate_store
\* afterwards]
RateTest(key, record) ==
    IF record.count >= RATE_LIMIT
    THEN [limited |-> TRUE, store |-> rate_store]
    ELSE [limited |-> FALSE, store |-> RateCount(key, record)]

rate_limited(key) == RateTest(key, RateWindow(RateGet(key)))

(***************************************************************************)
(* translate_cached (src/main.py:506-517)                                  *)
(***************************************************************************)

\* the position of the key in the cache, 0 if it is not cached
CachePos(k) ==
    IF \E n \in DOMAIN cache : cache[n].key = k
    THEN CHOOSE n \in DOMAIN cache : cache[n].key = k
    ELSE 0

\* the body of translate_cached: the provider's result, the sentinel if it raised
TranslateBody(mt) == IF mt.kind = "raise" THEN Sentinel ELSE mt.val

\* the cache with a new entry, the least recently used one dropped when the
\* cache is full
CacheAdd(e) ==
    IF Len(cache) + 1 > CacheSize THEN Tail(Append(cache, e)) ELSE Append(cache, e)

\* the call for the key k, cached at position n (0: not cached): a hit
\* returns the cached value and makes the entry the most recent one, a miss
\* runs the body and caches what it returns
CachedCall(k, n, mt) ==
    IF n # 0
    THEN [val |-> cache[n].val, hit |-> TRUE,
          cache |-> SubSeq(cache, 1, n - 1) \o SubSeq(cache, n + 1, Len(cache))
                    \o <<cache[n]>>]
    ELSE [val |-> TranslateBody(mt), hit |-> FALSE,
          cache |-> CacheAdd([key |-> k, val |-> TranslateBody(mt)])]

\* @lru_cache(maxsize=...) around the body: [val, cache, hit]
translate_cached(source, target, text, mt) ==
    CachedCall(<<source, target, text>>, CachePos(<<source, target, text>>), mt)

(***************************************************************************)
(* openai_translate (src/main.py:559-592)                                  *)
(***************************************************************************)

\* [raised, val]: raises without a client, when the API raises and when the
\* text extracted from the response is empty
openai_translate(llm) ==
    IF ~openai_client \/ llm.kind = "raise" \/ Falsy(Strip(llm.text))
    THEN [raised |-> TRUE, val |-> None]
    ELSE [raised |-> FALSE, val |-> Strip(Strip(llm.text))]

(***************************************************************************)
(* save_to_sheet_row (src/main.py:382-394)                                 *)
(***************************************************************************)

\* save_to_sheet_row with a third attempt: "for attempt in range(3)"
save_to_sheet_row_three_attempts(f) ==
    IF ~sheet THEN [ok |-> FALSE, attempts |-> 0, rows |-> 0]
    ELSE [ok |-> TRUE, attempts |-> f + 1, rows |-> 1]

\* f: how many append_row calls raise before one succeeds.
\* [ok |-> the value returned, attempts |-> append_row calls, rows |-> rows added]
save_to_sheet_row(f) ==
    IF ~sheet THEN [ok |-> FALSE, attempts |-> 0, rows |-> 0]
    ELSE IF f = 0 THEN [ok |-> TRUE, attempts |-> 1, rows |-> 1]
    ELSE IF f = 1 THEN [ok |-> TRUE, attempts |-> 2, rows |-> 1]
    ELSE [ok |-> FALSE, attempts |-> 2, rows |-> 0]

(***************************************************************************)
(* process_message (src/main.py:613-689)                                   *)
(***************************************************************************)

\* The stages of process_message that depend on the text alone, text the
\* stripped text (line 614) and expanded = expand_abbreviations(cleaned)
\* (line 631):
\*   pre:         preprocess_text(expanded, 'indonesian')        (line 632)
\*   polished_in: polish_chinese(cleaned)                        (line 663)
StagesOfExpanded(text, expanded) ==
    [text |-> text,
     calls_detect |-> CallsDetect(text),
     expanded |-> expanded,
     pre |-> preprocess_text(expanded, LangIndonesian),
     polished_in |-> polish_chinese(text)]

StagesOf(text) == StagesOfExpanded(text, expand_abbreviations(text))

\* the stages for every message text of the model (evaluated once)
Stages == [t \in Messages |-> StagesOf(Strip(t))] @@ <<>>

\* lang, cleaned = detect_language(text) (line 621), for every message text
\* and everything langdetect may do
Detected ==
    [td \in {x \in Messages \X (DetectOutcomes(<<"a">>) \cup {Idle}) : TRUE} |->
        detect_language(Strip(td[1]), td[2])] @@ <<>>

\* A call in progress: rec the record of the call, store _rate_store, cache
\* the lru cache, invoked the provider requests made, rows the rows appended.
Start(text0, key) ==
    [rec |-> [NoCall EXCEPT !.text = text0, !.key = key],
     store |-> rate_store, cache |-> cache, invoked |-> <<>>, rows |-> 0]

\* return {"error": ...}
Fail(r, e) == [r EXCEPT !.rec.outcome = "error", !.rec.error = e]

\* save_to_sheet_row(...) and return {"result": ..., "meta": ...} (lines
\* 652-659, 680-686), sv what save_to_sheet_row did
Finish(r, result, source, sv) ==
    [r EXCEPT !.rec.outcome = "result", !.rec.result = result,
              !.rec.source = source,
              !.rec.append_attempts = sv.attempts, !.rec.rows = sv.rows,
              !.rows = sv.rows]

\* base = translate_cached(...) (lines 648, 676) for the triple k, tc what
\* translate_cached did
WithLookup(r, k, mt, tc) ==
    [r EXCEPT !.rec.mt_lookups = 1,
              !.rec.mt_hit = tc.hit,
              !.rec.mt_calls = IF tc.hit THEN 0 ELSE 1,
              !.rec.mt_kind = IF tc.hit THEN "" ELSE mt.kind,
              !.rec.base = tc.val,
              !.cache = tc.cache,
              !.invoked = IF tc.hit THEN @ ELSE Append(@, <<"google">> \o k)]

\* lines 649-659 and 677-686, after base = translate_cached(...).  In the
\* id->zh branch polish_chinese(None) raises AttributeError (None has no
\* replace), which leaves process_message.
AfterLookup(r, polishes, f) ==
    IF polishes /\ r.rec.base = None
    THEN [r EXCEPT !.rec.outcome = "raised"]
    ELSE Finish(r, IF polishes THEN polish_chinese(r.rec.base) ELSE r.rec.base,
                "google-fallback", save_to_sheet_row(f))

\* the dispatcher without the test "if not result:": Google is always asked
NeedsFallback_always(result) == TRUE

\* "if not result:" (lines 647 and 675): the Google fallback is needed
NeedsFallback(result) == Falsy(result)

\* lines 646-659 and 675-686, result what the try block left
AfterOpenAI(r, k, polishes, mt, f, result) ==
    IF ~NeedsFallback(result)
    THEN Finish(r, result, "openai", save_to_sheet_row(f))
    ELSE AfterLookup(WithLookup(r, k, mt, translate_cached(k[1], k[2], k[3], mt)),
                     polishes, f)

\* the try block (lines 638-644, 668-673) for the triple k, o what
\* openai_translate did
WithOpenAI(r, k, o) ==
    [r EXCEPT !.rec.llm_calls = IF openai_client THEN 1 ELSE 0,
              !.rec.llm_raised = openai_client /\ o.raised,
              !.rec.llm_val = o.val,
              !.invoked = IF openai_client THEN Append(@, <<"openai">> \o k) ELSE @]

\* result after the try block: None unless openai_translate returned
OpenAIResult(o, polishes) ==
    IF o.raised THEN None
    ELSE IF polishes THEN polish_chinese(o.val) ELSE o.val

TranslateWith(r, k, polishes, mt, f, o) ==
    AfterOpenAI(WithOpenAI(r, k, o), k, polishes, mt, f, OpenAIResult(o, polishes))

\* The translation part of a branch: the OpenAI attempt, the Google
\* fallback, the sheet row and the value returned.
\*   source, target: the arguments of translate_cached in this branch
\*   text: the text handed to the providers
\*   polishes: the id->zh branch polishes what the providers return
Translate(r, source, target, text, polishes, llm, mt, f) ==
    TranslateWith(r, <<source, target, text>>, polishes, mt, f,
                  IF openai_client THEN openai_translate(llm)
                  ELSE [raised |-> TRUE, val |-> None])

\* lines 627-689: the branches, lang = str(lang).lower(), st the stages of
\* the text
Branch(r, st, lang, llm, mt, f) ==
    IF lang = LangIndonesian \/ HasAt(lang, 1, <<"i","d">>)
    THEN Translate([r EXCEPT !.rec.branch = "id", !.rec.expanded = st.expanded,
                             !.rec.pre = st.pre],
                   "id", "zh-TW", st.pre, TRUE, llm, mt, f)
    ELSE IF lang = LangChinese \/ HasAt(lang, 1, <<"z","h">>)
    THEN Translate([r EXCEPT !.rec.branch = "zh", !.rec.pre = st.polished_in],
                   "zh-TW", "id", st.polished_in, FALSE, llm, mt, f)
    ELSE Fail(r, ErrUnsupported)

\* lang, cleaned = detect_language(text) (line 621), lang0 the value of lang
WithDetect(r, st, d, lang0) ==
    [r EXCEPT !.rec.lang = lang0,
              !.rec.detect_called = st.calls_detect,
              !.rec.detect_raised = st.calls_detect /\ d.raised]

\* lines 624-689
AfterDetect(r, st, llm, mt, f) ==
    IF Falsy(r.rec.lang) THEN Fail(r, ErrNoLanguage)
    ELSE Branch(r, st, Lower(r.rec.lang), llm, mt, f)

\* rate_limited(client_key) (line 618), rl what it did
WithRate(r, rl) ==
    [r EXCEPT !.rec.rate_checked = TRUE, !.rec.admitted = ~rl.limited,
              !.store = rl.store]

\* lines 618-689
AfterRate(r, st, d, llm, mt, f) ==
    IF ~r.rec.admitted THEN Fail(r, ErrRateLimited)
    ELSE AfterDetect(WithDetect(r, st, d, Detected[<<r.rec.text, d>>]),
                     st, llm, mt, f)

\* process_message without the test of line 615: an empty text gets to the
\* rate limiter
AfterStrip_no_empty_test(r, st, d, llm, mt, f) ==
    AfterRate(WithRate(r, rate_limited(r.rec.key)), st, d, llm, mt, f)

\* lines 615-689, st the stages of the text
AfterStrip(r, st, d, llm, mt, f) ==
    IF st.text = <<>> THEN Fail(r, ErrEmptyInput)
    ELSE AfterRate(WithRate(r, rate_limited(r.rec.key)), st, d, llm, mt, f)

\* One call process_message(text0, key).  d, llm, mt and f are what the
\* collaborators do if the call gets to them.
ProcessMessage(text0, key, d, llm, mt, f) ==
    AfterStrip(Start(text0, key), Stages[text0], d, llm, mt, f)

\* the provider invocations counted per request
RECURSIVE CountCalls(_, _)
CountCalls(c, ks) ==
    IF ks = <<>> THEN c
    ELSE CountCalls([x \in DOMAIN c \cup {Head(ks)} |->
                        IF x \in DOMAIN c THEN (IF x = Head(ks) THEN c[x] + 1 ELSE c[x])
                        ELSE 1],
                    Tail(ks))

\* the fixed window a call admitted at the time `now` falls in: the window
\* the sender is in, or a new one when that has ended or there is none
AdmitInWindow(key) ==
    [k \in DOMAIN window \cup {key} |->
        IF k # key THEN window[k]
        ELSE IF key \notin DOMAIN window \/ now - window[key].start >= Window
        THEN [start |-> now, admitted |-> 1]
        ELSE [window[key] EXCEPT !.admitted = @ + 1]]

\* what the collaborators may do in a call: everything, or (faults = FALSE)
\* only what they do when they work
DetectChoices(t, faults) ==
    IF faults THEN DetectOutcomes(t)
    ELSE IF HasFeature(t) THEN {[raised |-> FALSE, code |-> <<"e","n">>]}
    ELSE {[raised |-> TRUE, code |-> <<>>]}

LLMChoices(source, faults) ==
    IF faults THEN LLMOutcomes(source)
    ELSE {[kind |-> "ok", text |-> t] : t \in ProviderOutputs(source)}

MTChoices(source, faults) ==
    IF faults THEN MTOutcomes(source)
    ELSE {[kind |-> "ok", val |-> t] : t \in ProviderOutputs(source)}

AppendChoices(faults) == IF faults THEN AppendFailures ELSE {0}

\* the source language of the branch a call took
SourceOf(r) == IF r.rec.branch = "id" THEN "id" ELSE "zh-TW"

\* what the collaborators a call gets to may do, r the call as far as it is
\* decided without them
DetectFor(r, faults) ==
    IF r.rec.detect_called THEN DetectChoices(Strip(r.rec.text), faults) ELSE {Idle}

LLMFor(r, faults) ==
    IF r.rec.llm_calls > 0 THEN LLMChoices(SourceOf(r), faults) ELSE {Idle}

MTFor(r, faults) ==
    IF r.rec.mt_calls > 0 THEN MTChoices(SourceOf(r), faults) ELSE {Idle}

AppendFor(r, faults) ==
    IF r.rec.append_attempts > 0 THEN AppendChoices(faults) ELSE {0}

\* the effects of the call r of the sender key
Deliver(key, r) ==
    /\ last' = r.rec
    /\ rate_store' = r.store
    /\ cache' = r.cache
    /\ sheet_rows' = sheet_rows + r.rows
    /\ calls' = CountCalls(calls, r.invoked)
    /\ window' = IF r.rec.admitted THEN AdmitInWindow(key) ELSE window
    /\ processed' = processed + 1

\* a call of process_message with a text of Msgs from a sender of Ks, at most
\* limit calls in a behaviour, with every behaviour (faults) or the regular
\* behaviour (~faults) of the collaborators the call gets to
Receive(Msgs, Ks, limit, faults) ==
    /\ processed < limit
    /\ \E text0 \in Msgs, key \in Ks :
       \E d \in DetectFor(ProcessMessage(text0, key, Idle, Idle, Idle, 0), faults) :
       \E llm \in LLMFor(ProcessMessage(text0, key, d, Idle, Idle, 0), faults) :
       \E mt \in MTFor(ProcessMessage(text0, key, d, llm, Idle, 0), faults) :
       \E f \in AppendFor(ProcessMessage(text0, key, d, llm, mt, 0), faults) :
          Deliver(key, ProcessMessage(text0, key, d, llm, mt, f))
    /\ UNCHANGED <<RATE_LIMIT, openai_client, sheet, now, arg, out, threads>>

\* time passes between two calls
Tick ==
    /\ now + TickStep <= MaxNow
    /\ now' = now + TickStep
    /\ UNCHANGED <<RATE_LIMIT, openai_client, sheet, rate_store, cache, sheet_rows,
                   calls, window, processed, last, arg, out, threads>>

\* The pipeline: process_message called by the webhook or by /translate with
\* any text of Messages, one sender, the collaborators free to fail.
process_message == Receive(Messages, {"line:u1"}, MaxMessages, TRUE)

Next == process_message \/ Tick

Spec == Init /\ [][Next]_vars

\* The dispatcher: one Indonesian and one Chinese text, translated again
\* and again, the collaborators free to fail.
DispatchMessages ==
    { <<"u","d","h"," ","m","a","k","a","n"," ","b","l","m"," ",
        "j","a","m"," ","9"," ","p","a","g","i">>,
      <<"Shi","Ah","Jie","Jie">> }

dispatch_message == Receive(DispatchMessages, {"line:u1"}, MaxDispatches, TRUE)

NextDispatch == dispatch_message

SpecDispatch == Init /\ [][NextDispatch]_vars

\* The rate limiter: two senders, an empty and a regular text, the
\* collaborators working, and time passing.
RateMessages ==
    { <<" ", " ">>,
      <<"ExtA1","ExtA2"," ","m","a","k","a","n">> }

rate_message == Receive(RateMessages, Keys, MaxRateCalls, FALSE)

NextRate == rate_message \/ Tick

SpecRate == Init /\ [][NextRate]_vars

\* The quota of a sender: two senders, an empty text, a text without a
\* language ("!!") and a regular text, the collaborators working, and time
\* passing.
QuotaMessages ==
    { <<" ", " ">>,
      <<"!", "!">>,
      <<"ExtA1","ExtA2"," ","m","a","k","a","n">> }

quota_message == Receive(QuotaMessages, Keys, MaxRateCalls, FALSE)

NextQuota == quota_message \/ Tick

SpecQuota == Init /\ [][NextQuota]_vars

(***************************************************************************)
(* convert_jam_to_hhmm applied to one time expression                      *)
(***************************************************************************)

\* the hours written after "jam": 9, 12, 27, 36
JamHours == { <<"9">>, <<"1","2">>, <<"2","7">>, <<"3","6">> }

\* what follows the hour: nothing, ":30", ".30", ",30", ".5", ":75"
JamMinuteParts ==
    { <<>>, <<":","3","0">>, <<".","3","0">>, <<",","3","0">>, <<".","5">>,
      <<":","7","5">> }

\* the period that follows: none, or one of the words of pattern_period
JamPeriods ==
    { <<>>, <<"p","a","g","i">>, <<"s","i","a","n","g">>, <<"s","o","r","e">>,
      <<"m","a","l","a","m">>, <<"a","m">>, <<"p","m">> }

\* the text "jam H<minute part>[ <period>]"
JamText(h, m, p) ==
    <<"j","a","m"," ">> \o h \o m \o (IF p = <<>> THEN <<>> ELSE <<" ">> \o p)

JamInputs == {JamText(h, m, p) : h \in JamHours, m \in JamMinuteParts, p \in JamPeriods}

\* the state before a text function is applied to a text of Inputs
InitText(Inputs) ==
    /\ RATE_LIMIT = 0
    /\ openai_client = FALSE
    /\ sheet = FALSE
    /\ now = 0
    /\ rate_store = <<>>
    /\ cache = <<>>
    /\ sheet_rows = 0
    /\ calls = <<>>
    /\ window = <<>>
    /\ processed = 0
    /\ last = NoCall
    /\ arg \in Inputs
    /\ out = None
    /\ threads = <<>>

InitJam == InitText(JamInputs)

\* text = convert_jam_to_hhmm(text) (line 498)
ConvertJam ==
    /\ out = None
    /\ out' = convert_jam_to_hhmm(arg)
    /\ UNCHANGED <<RATE_LIMIT, openai_client, sheet, now, rate_store, cache,
                   sheet_rows, calls, window, processed, last, arg, threads>>

NextJam == ConvertJam

SpecJam == InitJam /\ [][NextJam]_vars

(***************************************************************************)
(* polish_chinese applied to one text                                      *)
(***************************************************************************)

\* the texts polish_chinese is applied to have at most MaxPolishLen characters
MaxPolishLen == 3

\* their characters: 好, 的, a blank, 。 and ？
PolishChars == {"Hao", "De", " ", "Ju", "Qm"}

PolishInputs == UNION {[1..n -> PolishChars] : n \in 0..MaxPolishLen}

InitPolish == InitText(PolishInputs)

\* result = polish_chinese(base) (line 649)
Polish ==
    /\ out = None
    /\ out' = polish_chinese(arg)
    /\ UNCHANGED <<RATE_LIMIT, openai_client, sheet, now, rate_store, cache,
                   sheet_rows, calls, window, processed, last, arg, threads>>

NextPolish == Polish

SpecPolish == InitPolish /\ [][NextPolish]_vars

(***************************************************************************)
(* Worker threads: the web server handles requests in threads, and         *)
(* rate_limited and translate_cached run in them without a lock.  A step   *)
(* is one access to the shared _rate_store, to a list in it, or to the     *)
(* cache; what a thread does on its locals goes with the access before it. *)
(***************************************************************************)

\* the worker threads
Workers == {1, 2}

\* each thread makes at most MaxThreadCalls calls
MaxThreadCalls == 2

\* the sender whose messages the threads process
ThreadKey == "line:u1"

\* the (source, target, text) triple the threads ask translate_cached for:
\* the message 是啊姐姐, polished (line 676)
ThreadTriple == <<"zh-TW", "id", Stages[<<"Shi","Ah","Jie","Jie">>].polished_in>>

\* A thread between two calls.
\*   pc: the step it is at; done: the calls it has finished
\*   aliased: its local `record` is the list that _rate_store holds for the
\*            key (lists are shared by reference); record: the list when it
\*            is not the one in _rate_store
\*   count: the local count, then the value read for record[0] += 1
\*   value: what the translation provider returned to it
IdleThread ==
    [pc |-> "idle", done |-> 0, aliased |-> FALSE,
     record |-> [count |-> 0, start |-> 0], count |-> 0, value |-> None]

InitThreads ==
    /\ RATE_LIMIT \in 0..MaxRateLimit
    /\ openai_client = FALSE
    /\ sheet = FALSE
    /\ now = 0
    /\ rate_store = <<>>
    /\ cache = <<>>
    /\ sheet_rows = 0
    /\ calls = <<>>
    /\ window = <<>>
    /\ processed = 0
    /\ last = NoCall
    /\ arg = <<>>
    /\ out = None
    /\ threads = [t \in Workers |-> IdleThread]

\* the list the local `record` of thread t refers to
RecordOf(t) ==
    IF threads[t].aliased THEN rate_store[ThreadKey] ELSE threads[t].record

\* line 601: record = _rate_store.get(key, [0, now])
ThreadGet(t) ==
    /\ threads[t].pc = "idle"
    /\ threads[t].done < MaxThreadCalls
    /\ threads' = [threads EXCEPT ![t].pc = "test",
                                  ![t].aliased = ThreadKey \in DOMAIN rate_store,
                                  ![t].record = [count |-> 0, start |-> now]]
    /\ UNCHANGED <<RATE_LIMIT, openai_client, sheet, now, rate_store, cache,
                   sheet_rows, calls, window, processed, last, arg, out>>

\* lines 602-607 for the list rec read at line 602: count, start = record,
\* the window test on the locals, and "if count >= RATE_LIMIT: return True"
ThreadTestOn(t, rec) ==
    IF now - rec.start >= Window
    THEN IF 0 >= RATE_LIMIT
         THEN [threads EXCEPT ![t].pc = "idle", ![t].done = @ + 1]
         ELSE [threads EXCEPT ![t].pc = "load", ![t].aliased = FALSE,
                              ![t].record = [count |-> 0, start |-> now],
                              ![t].count = 0]
    ELSE IF rec.count >= RATE_LIMIT
         THEN [threads EXCEPT ![t].pc = "idle", ![t].done = @ + 1]
         ELSE [threads EXCEPT ![t].pc = "load", ![t].count = rec.count]

ThreadTest(t) ==
    /\ threads[t].pc = "test"
    /\ threads' = ThreadTestOn(t, RecordOf(t))
    /\ UNCHANGED <<RATE_LIMIT, openai_client, sheet, now, rate_store, cache,
                   sheet_rows, calls, window, processed, last, arg, out>>

\* line 608, record[0] += 1: the read of record[0]
ThreadLoad(t) ==
    /\ threads[t].pc = "load"
    /\ threads' = [threads EXCEPT ![t].pc = "add", ![t].count = RecordOf(t).count]
    /\ UNCHANGED <<RATE_LIMIT, openai_client, sheet, now, rate_store, cache,
                   sheet_rows, calls, window, processed, last, arg, out>>

\* line 608, record[0] += 1: the write of record[0], into the list of
\* _rate_store when the record is that list
ThreadAdd(t) ==
    /\ threads[t].pc = "add"
    /\ IF threads[t].aliased
       THEN /\ rate_store' = [rate_store EXCEPT ![ThreadKey].count = threads[t].count + 1]
            /\ threads' = [threads EXCEPT ![t].pc = "store"]
       ELSE /\ rate_store' = rate_store
            /\ threads' = [threads EXCEPT ![t].pc = "store",
                                          ![t].record.count = threads[t].count + 1]
    /\ UNCHANGED <<RATE_LIMIT, openai_client, sheet, now, cache,
                   sheet_rows, calls, window, processed, last, arg, out>>

\* the threads after thread t has put its list into _rate_store: the list
\* is now the one of _rate_store, and the other thread keeps the list it
\* had, which is no longer the one of _rate_store
ThreadsAfterStore(t) ==
    [u \in Workers |->
        IF u = t THEN [threads[t] EXCEPT !.pc = "idle", !.done = @ + 1, !.aliased = TRUE]
        ELSE IF threads[u].aliased /\ ~threads[t].aliased
        THEN [threads[u] EXCEPT !.aliased = FALSE, !.record = rate_store[ThreadKey]]
        ELSE threads[u]]

\* lines 609-610: _rate_store[key] = record; return False.  The call is
\* admitted.
ThreadStore(t) ==
    /\ threads[t].pc = "store"
    /\ rate_store' = [k \in DOMAIN rate_store \cup {ThreadKey} |->
                         IF k = ThreadKey THEN RecordOf(t) ELSE rate_store[k]]
    /\ threads' = ThreadsAfterStore(t)
    /\ window' = AdmitInWindow(ThreadKey)
    /\ UNCHANGED <<RATE_LIMIT, openai_client, sheet, now, cache,
                   sheet_rows, calls, processed, last, arg, out>>

\* rate_limited(key) called by the worker threads for one sender
NextRateThreads ==
    \E t \in Workers :
        \/ ThreadGet(t)
        \/ ThreadTest(t)
        \/ ThreadLoad(t)
        \/ ThreadAdd(t)
        \/ ThreadStore(t)

SpecRateThreads == InitThreads /\ [][NextRateThreads]_vars

\* translate_cached(...) (line 676) in a thread, the lookup of lru_cache:
\* a hit returns the cached value, a miss goes on to call the function
CacheLookup(t) ==
    /\ threads[t].pc = "idle"
    /\ threads[t].done < MaxThreadCalls
    /\ IF CachePos(ThreadTriple) # 0
       THEN /\ cache' = CachedCall(ThreadTriple, CachePos(ThreadTriple), Idle).cache
            /\ threads' = [threads EXCEPT ![t].done = @ + 1,
                                          ![t].value = cache[CachePos(ThreadTriple)].val]
       ELSE /\ cache' = cache
            /\ threads' = [threads EXCEPT ![t].pc = "call"]
    /\ UNCHANGED <<RATE_LIMIT, openai_client, sheet, now, rate_store,
                   sheet_rows, calls, window, processed, last, arg, out>>

\* lines 509-517: the body of translate_cached, outside any lock; the
\* provider is invoked
CacheCall(t) ==
    /\ threads[t].pc = "call"
    /\ \E mt \in MTOutcomes(ThreadTriple[1]) :
          threads' = [threads EXCEPT ![t].pc = "insert", ![t].value = TranslateBody(mt)]
    /\ calls' = CountCalls(calls, << <<"google">> \o ThreadTriple >>)
    /\ UNCHANGED <<RATE_LIMIT, openai_client, sheet, now, rate_store, cache,
                   sheet_rows, window, processed, last, arg, out>>

\* lru_cache after the function returned: the result is cached unless
\* another thread cached the key in the meantime
CacheInsert(t) ==
    /\ threads[t].pc = "insert"
    /\ cache' = IF CachePos(ThreadTriple) # 0 THEN cache
                ELSE CacheAdd([key |-> ThreadTriple, val |-> threads[t].value])
    /\ threads' = [threads EXCEPT ![t].pc = "idle", ![t].done = @ + 1]
    /\ UNCHANGED <<RATE_LIMIT, openai_client, sheet, now, rate_store,
                   sheet_rows, calls, window, processed, last, arg, out>>

\* translate_cached called by the worker threads for one triple
NextCacheThreads ==
    \E t \in Workers :
        \/ CacheLookup(t)
        \/ CacheCall(t)
        \/ CacheInsert(t)

SpecCacheThreads == InitThreads /\ [][NextCacheThreads]_vars

(***************************************************************************)
(* Properties                                                              *)
(***************************************************************************)

\* p occurs in s
Contains(s, p) == \E i \in 1..Len(s) : HasAt(s, i, p)

\* the time expression "jam H", "jam H.M" or "jam H <period>" that starts at
\* position i of s, as convert_jam_to_hhmm reads it: out is its HH:MM
TimeAt(s, i) ==
    FirstMatch(<<PeriodMatchAt(s, i), DecimalMatchAt(s, i), BasicMatchAt(s, i)>>)

\* the call got to the translation step
ReachedTranslation == last.branch \in {"id", "zh"}

\* the number of CJK ideographs (Unified Ideographs or Extension A) in s
Ideographs(s) == Cardinality({i \in 1..Len(s) : IsIdeograph(s[i])})

\* s has no letter, digit or ideograph: empty, blanks, punctuation
NoWordChar(s) == \A i \in 1..Len(s) : ~IsWordChar(s[i])

\* the translation-failure outcome: an error, or the sentinel text as result
FailureOutcome ==
    \/ last.outcome = "error"
    \/ /\ last.outcome = "result"
       /\ last.result \in {Sentinel, polish_chinese(Sentinel)}

\* C1: for a message classified as Indonesian, every time expression
\* 'jam H' / 'jam H <period>' of the input is in the text handed to the
\* translation provider as its canonical HH:MM ('jam 9 pagi' as 09:00).
C1_TimesCanonicalAtProvider ==
    (last.branch = "id") =>
        \A i \in 1..Len(Strip(last.text)) :
            TimeAt(Strip(last.text), i).ok =>
                Contains(last.pre, TimeAt(Strip(last.text), i).out)

\* C2: for each sender and each fixed 60 s window that starts at the first
\* admitted call of the window, at most RATE_LIMIT calls are admitted; a
\* call that is not admitted returns the rate-limit error, invokes no
\* translation provider and writes no sheet row.  (The calls are those that
\* get to the rate limiter: a call with an empty text returns before it.)
C2_RateLimit ==
    /\ \A k \in DOMAIN window : window[k].admitted <= RATE_LIMIT
    /\ \A k \in DOMAIN rate_store :
          /\ k \in DOMAIN window
          /\ rate_store[k].start = window[k].start
          /\ rate_store[k].count = window[k].admitted
    /\ (last.rate_checked /\ ~last.admitted) =>
          /\ last.outcome = "error"
          /\ last.error = ErrRateLimited
          /\ last.llm_calls = 0
          /\ last.mt_lookups = 0
          /\ last.mt_calls = 0
          /\ last.append_attempts = 0
          /\ last.rows = 0

\* C2: a sender with RATE_LIMIT admitted calls in the window calls again
\* inside the window, later, and is turned away, while the sheet is connected
C2_Witness ==
    /\ RATE_LIMIT = MaxRateLimit
    /\ sheet
    /\ last.rate_checked
    /\ ~last.admitted
    /\ last.key \in DOMAIN window
    /\ window[last.key].admitted = RATE_LIMIT
    /\ now > window[last.key].start
    /\ now - window[last.key].start < Window
    /\ sheet_rows = RATE_LIMIT

\* C3: two translation requests with the same (source, target, text) cause
\* at most one invocation of an external provider, whichever provider
\* serves: no provider is invoked twice for one triple.
C3_OneInvocationPerTriple == \A k \in DOMAIN calls : calls[k] <= 1

\* C4: the translation step never raises: when the MT provider raises,
\* translate_cached returns the sentinel, and when the LLM provider raises,
\* process_message still returns a dict.
C4_NeverRaises ==
    /\ (last.mt_calls = 1 /\ last.mt_kind = "raise") => last.base = Sentinel
    /\ last.llm_raised => last.outcome \in {"result", "error"}

\* C5: when the provider that serves the message returns an empty string or
\* no value, process_message returns the translation-failure outcome: no
\* success result built from the empty value, no exception.
C5_EmptyIsFailure ==
    (ReachedTranslation /\ last.mt_lookups = 1 /\ Falsy(last.base)) =>
        FailureOutcome

\* C6: polish_chinese is idempotent: polishing a text that polish_chinese
\* returned (the result of the id->zh branch, the text the zh->id branch
\* hands to the provider) returns it unchanged.
C6_PolishIdempotent ==
    /\ (last.branch = "zh") => polish_chinese(last.pre) = last.pre
    /\ (last.branch = "id" /\ last.outcome = "result") =>
            polish_chinese(last.result) = last.result

\* C7: a call with an empty, blank or punctuation-only text returns the
\* EmptyInput error and calls no translation provider.  (Stated for the
\* calls the rate limiter does not turn away.)
C7_EmptyInputError ==
    (last.outcome # "none" /\ NoWordChar(last.text)
        /\ ~(last.rate_checked /\ ~last.admitted)) =>
        /\ last.outcome = "error"
        /\ last.error = ErrEmptyInput
        /\ last.llm_calls = 0
        /\ last.mt_lookups = 0

\* C8: when the classifier outcome is neither Chinese nor Indonesian, the
\* failure of the statistical detector included, process_message returns
\* the error 'language not supported', invokes no provider, writes no row.
C8_UnsupportedError ==
    (last.admitted /\ ~ReachedTranslation) =>
        /\ last.outcome = "error"
        /\ last.error = ErrUnsupported
        /\ last.llm_calls = 0
        /\ last.mt_lookups = 0
        /\ last.rows = 0

\* C9: for a message that gets to translation each provider is invoked at
\* most once, the Google fallback only if OpenAI is not configured, raised
\* or returned an empty text, and meta.source names the provider whose
\* output is the result: 'openai' iff it is the LLM's, 'google-fallback'
\* iff it is the MT dispatcher's.
C9_ProviderSelection ==
    ReachedTranslation =>
        /\ last.llm_calls <= 1
        /\ last.mt_calls <= 1
        /\ last.mt_lookups <= 1
        /\ last.llm_calls = (IF openai_client THEN 1 ELSE 0)
        /\ (last.mt_lookups = 1) => (~openai_client \/ last.llm_raised)
        /\ (last.outcome = "result") =>
              /\ last.source \in {"openai", "google-fallback"}
              /\ (last.source = "openai") <=>
                    /\ last.llm_calls = 1
                    /\ ~last.llm_raised
                    /\ last.mt_lookups = 0
                    /\ last.result = (IF last.branch = "id"
                                      THEN polish_chinese(last.llm_val)
                                      ELSE last.llm_val)
              /\ (last.source = "google-fallback") <=>
                    /\ last.mt_lookups = 1
                    /\ last.result = (IF last.branch = "id"
                                      THEN polish_chinese(last.base)
                                      ELSE last.base)

\* C9: OpenAI is configured and raised, Google was asked once and its
\* translation is the result, named 'google-fallback'
C9_Witness ==
    /\ ReachedTranslation
    /\ openai_client
    /\ last.llm_calls = 1
    /\ last.llm_raised
    /\ last.mt_calls = 1
    /\ last.mt_kind = "ok"
    /\ ~Falsy(last.base)
    /\ last.outcome = "result"
    /\ last.source = "google-fallback"

\* C10: for a text with at least 2 CJK ideographs (Unified Ideographs or an
\* Extension block) detect_language returns 'chinese' and does not consult
\* langdetect, whatever Indonesian tokens the text has.
C10_IdeographsAreChinese ==
    (last.admitted /\ Ideographs(Strip(last.text)) >= 2) =>
        /\ last.lang = LangChinese
        /\ ~last.detect_called

\* s is HH:MM: two digits, a colon, two digits, HH in 00..23 and MM in 00..59
IsHHMM(s) ==
    /\ Len(s) = 5
    /\ s[3] = ":"
    /\ \A i \in {1, 2, 4, 5} : IsDigit(s[i])
    /\ ToInt(SubSeq(s, 1, 2)) \in 0..23
    /\ ToInt(SubSeq(s, 4, 5)) \in 0..59

\* the hour of the reference "adjust, then reduce modulo 24"
ReferenceHour(h, p) ==
    (IF p \in {<<"s","o","r","e">>, <<"m","a","l","a","m">>, <<"p","m">>} /\ h < 12
     THEN h + 12
     ELSE IF p \in {<<"p","a","g","i">>, <<"a","m">>} /\ h = 12 THEN 0
     ELSE h) % 24

\* round(0.F x 60), F the digits after the decimal point
ReferenceFraction(f) == RoundHalfEven(ToInt(f) * 60, Pow10(Len(f)))

\* C11: every time string convert_jam_to_hhmm produces for a recognized
\* 'jam' expression is HH:MM with HH in 00..23 and MM in 00..59.
C11_CanonicalTime == (out # None /\ arg \in JamInputs) => IsHHMM(out)

\* C12: 'jam H.F' is rewritten with minute = round(0.F x 60), with and
\* without a period word after it ('jam 9.5 sore' gives 21:30).
C12_FractionOfHour ==
    \A h \in JamHours, f \in {<<"5">>, <<"3","0">>}, p \in JamPeriods :
        (out # None /\ arg = JamText(h, <<".">> \o f, p)) =>
            /\ Len(out) = 5
            /\ SubSeq(out, 3, 5) = <<":">> \o Fmt02(ReferenceFraction(f))

\* C19: 'jam H:MM', 'jam H.MM' and 'jam H,MM' are rewritten to the same
\* string HH:MM with minute MM ('jam 9.30' gives 09:30).
C19_SeparatorsAgree ==
    \A h \in JamHours, sep \in {":", ".", ","} :
        (out # None /\ arg = JamText(h, <<sep, "3", "0">>, <<>>)) =>
            out = Fmt02(ToInt(h) % 24) \o <<":","3","0">>

\* C20: the hour convert_jam_to_hhmm produces is the hour adjusted for the
\* period word and only then reduced modulo 24 ('jam 27 sore' gives 03:00,
\* 'jam 36 pagi' gives 12:00).
C20_AdjustThenModulo ==
    \A h \in JamHours, p \in JamPeriods :
        (out # None /\ arg = JamText(h, <<>>, p)) =>
            out = Fmt02(ReferenceHour(ToInt(h), p)) \o <<":","0","0">>

\* every text of JamInputs is one recognized expression: what
\* convert_jam_to_hhmm returns is digits, a colon, digits
JamRecognized ==
    (out # None /\ arg \in JamInputs) =>
        \E c \in 2..(Len(out) - 1) :
            /\ out[c] = ":"
            /\ \A i \in 1..Len(out) : i # c => IsDigit(out[i])


\* C13: in the Indonesian branch abbreviations are expanded in one pass:
\* the text handed to the translator is the expanded text with its times
\* normalized, and no text a substitution produced is expanded again ('aj'
\* reaches the translator as 'aja', not as '就好').
C13_SinglePassExpansion ==
    (last.branch = "id") =>
        last.pre = convert_jam_to_hhmm(SubDianHour(SubDianMinute(last.expanded, 1), 1))

\* C14: a message whose translation failed leaves nothing behind: when the
\* provider does not fail in a later call (it is not asked, or it answers),
\* that call does not get the failure sentinel of the earlier message.
C14_FailureLeavesNoState ==
    (last.mt_lookups = 1 /\ last.mt_kind # "raise") => last.base # Sentinel

\* C15: logging is best-effort and bounded: save_to_sheet_row makes at most
\* 2 append attempts, appends at most one row (it stops at the first
\* attempt that succeeds) and does not raise, and what process_message
\* returns is built from the providers' output alone, whatever the appends
\* did.
C15_BestEffortLogging ==
    /\ last.append_attempts \in 0..2
    /\ last.rows \in 0..1
    /\ last.rows = 1 => last.append_attempts \in 1..2
    /\ last.append_attempts > 0 =>
          /\ sheet
          /\ last.outcome = "result"
          /\ last.source = "openai" =>
                last.result = IF last.branch = "id" THEN polish_chinese(last.llm_val)
                              ELSE last.llm_val
          /\ last.source = "google-fallback" =>
                last.result = IF last.branch = "id" THEN polish_chinese(last.base)
                              ELSE last.base

\* a call whose two append attempts both failed and that returned its result
C15_Witness ==
    /\ last.outcome = "result"
    /\ last.append_attempts = 2
    /\ last.rows = 0

\* C16: the text polish_chinese returns ends with one of the terminal marks
\* 。 ！ ？, for every input, a text with blanks after a terminal mark
\* included.
C16_EndsWithTerminalMark ==
    (out # None /\ arg \in PolishInputs) => EndsWithMark(out)

\* C17: with worker threads in rate_limited for the same sender, under
\* every interleaving of their steps the calls admitted for the sender in
\* one 60 s window are at most RATE_LIMIT.
C17_NoLostUpdate ==
    (ThreadKey \in DOMAIN window) => window[ThreadKey].admitted <= RATE_LIMIT

\* C18: with worker threads in translate_cached for the same triple, the MT
\* provider is invoked at most once for the triple under every
\* interleaving.
C18_OneProviderCall ==
    \A k \in DOMAIN calls : k = <<"google">> \o ThreadTriple => calls[k] <= 1

\* the count _rate_store holds for the sender k in the window that is
\* current at the time `now`: 0 when it holds none or its window has ended
CountInWindow(k) ==
    IF k \in DOMAIN rate_store /\ now - rate_store[k].start < Window
    THEN rate_store[k].count
    ELSE 0

\* C21: a call whose text is empty after trimming leaves _rate_store
\* unchanged, and a call that passes the empty check and is admitted counts
\* the sender's count up by exactly one (from 0 in a new window) and leaves
\* the other senders alone, also when it ends in a language error.
C21_QuotaPerAdmittedCall ==
    [][processed' = processed + 1 =>
          /\ Strip(last'.text) = <<>> =>
                /\ ~last'.rate_checked
                /\ rate_store' = rate_store
          /\ Strip(last'.text) # <<>> => last'.rate_checked
          /\ (last'.rate_checked /\ last'.admitted) =>
                /\ last'.key \in DOMAIN rate_store'
                /\ rate_store'[last'.key].count = CountInWindow(last'.key) + 1
                /\ \A k \in DOMAIN rate_store' \ {last'.key} :
                      k \in DOMAIN rate_store /\ rate_store'[k] = rate_store[k]
    ]_vars

\* an admitted call that ended in the language error without a translation,
\* the second call counted for its sender
C21_Witness ==
    /\ last.rate_checked
    /\ last.admitted
    /\ last.outcome = "error"
    /\ last.error = ErrNoLanguage
    /\ last.llm_calls = 0
    /\ last.mt_lookups = 0
    /\ rate_store[last.key].count = 2

\* C22: a call that is turned away changes neither the count nor the window
\* start of any sender, and (RATE_LIMIT >= 1) a call of a sender that comes
\* 60 s or more after the start of the sender's window is admitted and
\* opens a new window, at the time of the call, with count 1.
C22_NeverBlockedForever ==
    [][(processed' = processed + 1 /\ last'.rate_checked) =>
          /\ ~last'.admitted => rate_store' = rate_store
          /\ (/\ RATE_LIMIT >= 1
              /\ last'.key \in DOMAIN rate_store
              /\ now - rate_store[last'.key].start >= Window) =>
                /\ last'.admitted
                /\ rate_store'[last'.key] = [count |-> 1, start |-> now]
    ]_vars

\* with RATE_LIMIT = 1 and the sheet connected, two translated calls of the
\* one sender that has called: the second one came when the window of the
\* first had ended, and opened a new window
C22_Witness ==
    /\ RATE_LIMIT = 1
    /\ sheet
    /\ sheet_rows = 2
    /\ last.admitted
    /\ DOMAIN rate_store = {last.key}
    /\ now >= Window
    /\ rate_store[last.key] = [count |-> 1, start |-> now]

====
